---- MODULE Spec2Model ----
(***************************************************************************)
(* Finite-volume operator assembly of tdgl/finite_volume/matrices.py:      *)
(* build_divergence, build_gradient, build_laplacian,                      *)
(* build_neumann_boundary_laplacian and the MatrixBuilder facade.          *)
(*                                                                         *)
(* Conventions of the model                                                *)
(*  - sites, edges and array positions are numbered from 1 (Python: 0);    *)
(*  - numbers are exact complex rationals [re, im, den] (re + i*im)/den,   *)
(*    den > 0, in lowest terms; floating-point rounding is not modelled;   *)
(*  - link exponents are integers in units of pi/2, so that                *)
(*    exp(-1j * k * pi/2) = (-i)^k is an exact Gaussian integer;           *)
(*  - a sparse matrix is its dense value: entry (i,j) is the sum of the    *)
(*    triplets with that row and column (scipy sums duplicates).           *)
(***************************************************************************)
EXTENDS Integers, Sequences, FiniteSets, TLC

\* ------------------------------------------------------------------ bounds
NumSites == 3
MaxArea == 2
MaxFixed == 2
MaxLink == 1
MaxEig == 2

\* ------------------------------------------------------------------ values
\* An optional array argument or field is None, a numpy array of data, or the
\* 0-dimensional object array np.copy(None) returns, which is not None.
None == [kind |-> "None"]
NdArray(data) == [kind |-> "ndarray", data |-> data]
NoneArray == [kind |-> "ndarray0d"]

VARIABLES
    mesh,       \* the mesh the operators are built on
    args,       \* assembler: the arguments of the direct calls
    ret,        \* assembler: what the last direct call returned
    builders,   \* MatrixBuilder objects b and c: their fields, by value
    same,       \* per field: b's and c's field refer to one array object
    out,        \* builder: the last call and what it returned
    cloned      \* history: the configurations c = b.clone() started from

asmVars == <<args, ret>>
bldVars == <<builders, same, out, cloned>>
vars == <<mesh, args, ret, builders, same, out, cloned>>

\* ------------------------------------------------------- exact arithmetic
Abs(x) == IF x < 0 THEN -x ELSE x

RECURSIVE Gcd(_, _)
Gcd(a, b) == IF b = 0 THEN a ELSE Gcd(b, a % b)

Norm(re, im, den) ==
    LET g == Gcd(Gcd(Abs(re), Abs(im)), den)
    IN  [re |-> re \div g, im |-> im \div g, den |-> den \div g]

CFrac(n, d) == Norm(n, 0, d)
CZero == CFrac(0, 1)
COne == CFrac(1, 1)
CAdd(a, b) == Norm(a.re * b.den + b.re * a.den, a.im * b.den + b.im * a.den, a.den * b.den)
CMul(a, b) == Norm(a.re * b.re - a.im * b.im, a.re * b.im + a.im * b.re, a.den * b.den)
CNeg(a) == [re |-> -a.re, im |-> -a.im, den |-> a.den]
CConj(a) == [re |-> a.re, im |-> -a.im, den |-> a.den]
CDivInt(a, n) == Norm(a.re, a.im, a.den * n)

\* exp(-1j * k * pi/2)
ExpMinusI(k) ==
    LET r == k % 4
    IN  IF r = 0 THEN [re |-> 1, im |-> 0, den |-> 1]
        ELSE IF r = 1 THEN [re |-> 0, im |-> -1, den |-> 1]
        ELSE IF r = 2 THEN [re |-> -1, im |-> 0, den |-> 1]
        ELSE [re |-> 0, im |-> 1, den |-> 1]

\* ------------------------------------------------------------------ numpy
\* arr[mask] with a boolean mask of the same length
BoolIndex(arr, mask) ==
    LET F[k \in 0..Len(arr)] ==
            IF k = 0 THEN <<>>
            ELSE IF mask[k] THEN Append(F[k - 1], arr[k]) ELSE F[k - 1]
    IN  F[Len(arr)]

\* np.isin(element, test_elements, invert=True)
IsinInvert(element, test_elements) ==
    [k \in 1..Len(element) |->
        ~(\E t \in 1..Len(test_elements) : test_elements[t] = element[k])]

\* sp.csr_matrix / sp.csc_matrix ((values, (rows, cols)), shape=(nr, nc))
SparseMatrix(values, rows, cols, nr, nc) ==
    [i \in 1..nr |-> [j \in 1..nc |->
        LET F[k \in 0..Len(values)] ==
                IF k = 0 THEN CZero
                ELSE IF rows[k] = i /\ cols[k] = j
                     THEN CAdd(F[k - 1], values[k]) ELSE F[k - 1]
        IN  F[Len(values)]]]

\* matrix @ vector
MatVec(m, v) ==
    [i \in DOMAIN m |->
        LET F[k \in 0..Len(v)] ==
                IF k = 0 THEN CZero ELSE CAdd(F[k - 1], CMul(m[i][k], v[k]))
        IN  F[Len(v)]]

\* ------------------------------------------------------------------- mesh
Sites == 1..NumSites

\* The edges of the mesh: the boundary ring 1-2-...-N-1 first, then (from four
\* sites on) one interior edge 1-3.  Each edge points from endpoint 0 to
\* endpoint 1.
RingEdges == [i \in 1..NumSites |-> <<i, (i % NumSites) + 1>>]
MeshEdges == IF NumSites >= 4 THEN Append(RingEdges, <<1, 3>>) ELSE RingEdges
NumEdges == Len(MeshEdges)
Edges == 1..NumEdges

\* site coordinates
SiteX == [i \in Sites |-> i]
SiteY == [i \in Sites |-> (i * i) % 3]

\* Mesh / EdgeMesh as the assembler reads them: mesh.x, mesh.areas,
\* mesh.edge_mesh.{edges, edge_lengths, dual_edge_lengths, directions,
\* boundary_edge_indices}.
MeshOf(areas) ==
    [x |-> SiteX,
     areas |-> areas,
     edge_mesh |->
        [edges |-> MeshEdges,
         edge_lengths |-> [e \in Edges |-> 1 + (e % 2)],
         dual_edge_lengths |-> [e \in Edges |-> e],
         directions |-> [e \in Edges |->
              <<SiteX[MeshEdges[e][2]] - SiteX[MeshEdges[e][1]],
                SiteY[MeshEdges[e][2]] - SiteY[MeshEdges[e][1]]>>],
         boundary_edge_indices |-> [k \in 1..NumSites |-> k]]]

\* dual areas: uniform, or graded from site to site
AreaProfiles ==
    {[i \in Sites |-> a] : a \in 1..MaxArea}
        \cup {[i \in Sites |-> 1 + ((i + k) % MaxArea)] : k \in 1..MaxArea}

Meshes == {MeshOf(areas) : areas \in AreaProfiles}

\* ------------------------------------------------------------ input sets
RECURSIVE SortedSeq(_)
SortedSeq(S) ==
    IF S = {} THEN <<>>
    ELSE LET m == CHOOSE x \in S : \A y \in S : x <= y
         IN  <<m>> \o SortedSeq(S \ {m})

\* fixed-site arrays: the non-empty site sets of at most MaxFixed sites
FixedArrays ==
    {NdArray(SortedSeq(S)) : S \in {T \in SUBSET Sites : Cardinality(T) \in 1..MaxFixed}}

\* link-exponent arrays of shape (M, 2): one vector for every edge
LinkArrays ==
    {NdArray([e \in Edges |-> <<p, q>>]) : p \in 0..MaxLink, q \in 0..MaxLink}

\* the default eigenvalue 0 and a non-zero one
EigenValues == {0, MaxEig}

\* ------------------------------------------------------------ exceptions
Raise(exc) == [raised |-> exc]
Return(val) == [raised |-> "no", value |-> val]

\* --------------------------------------------------------- link variables
\* np.exp(-1j * (np.asarray(link_exponents) * edge_mesh.directions).sum(axis=1))
\* and np.ones(len(weights)) when link_exponents is None
link_variable_weights(edge_mesh, link_exponents) ==
    IF link_exponents = None
    THEN [e \in 1..Len(edge_mesh.edges) |-> COne]
    ELSE [e \in 1..Len(edge_mesh.edges) |->
            ExpMinusI(link_exponents.data[e][1] * edge_mesh.directions[e][1]
                      + link_exponents.data[e][2] * edge_mesh.directions[e][2])]

edges0(edge_mesh) == [e \in 1..Len(edge_mesh.edges) |-> edge_mesh.edges[e][1]]
edges1(edge_mesh) == [e \in 1..Len(edge_mesh.edges) |-> edge_mesh.edges[e][2]]
edge_indices(edge_mesh) == [e \in 1..Len(edge_mesh.edges) |-> e]

\* ------------------------------------------------------- build_divergence
DivergenceValues(m) ==
    LET em == m.edge_mesh
        M == Len(em.edges)
    IN  [e \in 1..M |-> CFrac(em.dual_edge_lengths[e], m.areas[em.edges[e][1]])]
        \o [e \in 1..M |-> CNeg(CFrac(em.dual_edge_lengths[e], m.areas[em.edges[e][2]]))]

build_divergence(m) ==
    LET em == m.edge_mesh
        rows == edges0(em) \o edges1(em)
        cols == edge_indices(em) \o edge_indices(em)
    IN  Return(SparseMatrix(DivergenceValues(m), rows, cols, Len(m.x), Len(em.edges)))

\* --------------------------------------------------------- build_gradient
\* mutant: the endpoint-0 term loses its sign
GradientValues_SignLost(m, lvw) ==
    LET em == m.edge_mesh
        M == Len(em.edges)
    IN  [e \in 1..M |-> CMul(lvw[e], CFrac(1, em.edge_lengths[e]))]
        \o [e \in 1..M |-> CFrac(1, em.edge_lengths[e])]

GradientValues(m, lvw) ==
    LET em == m.edge_mesh
        M == Len(em.edges)
    IN  [e \in 1..M |-> CMul(lvw[e], CFrac(1, em.edge_lengths[e]))]
        \o [e \in 1..M |-> CNeg(CFrac(1, em.edge_lengths[e]))]

build_gradient(m, link_exponents) ==
    IF link_exponents = NoneArray
    THEN Raise("TypeError")    \* None * float in the element-wise product
    ELSE LET em == m.edge_mesh
             rows == edge_indices(em) \o edge_indices(em)
             cols == edges1(em) \o edges0(em)
             values == GradientValues(m, link_variable_weights(em, link_exponents))
         IN  Return(SparseMatrix(values, rows, cols, Len(em.edges), Len(m.x)))

\* -------------------------------------------------------- build_laplacian
LaplacianRows(em) == edges0(em) \o edges1(em) \o edges0(em) \o edges1(em)
LaplacianCols(em) == edges1(em) \o edges0(em) \o edges0(em) \o edges1(em)

\* mutant: the link variable of the transposed entry is not conjugated
LaplacianValues_NoConjugate(m, lvw) ==
    LET em == m.edge_mesh
        M == Len(em.edges)
        weights == [e \in 1..M |-> CFrac(em.dual_edge_lengths[e], em.edge_lengths[e])]
        areas0 == [e \in 1..M |-> m.areas[em.edges[e][1]]]
        areas1 == [e \in 1..M |-> m.areas[em.edges[e][2]]]
    IN  [e \in 1..M |-> CDivInt(CMul(weights[e], lvw[e]), areas0[e])]
        \o [e \in 1..M |-> CDivInt(CMul(weights[e], lvw[e]), areas1[e])]
        \o [e \in 1..M |-> CDivInt(CNeg(weights[e]), areas0[e])]
        \o [e \in 1..M |-> CDivInt(CNeg(weights[e]), areas1[e])]

\* mutant: the two diagonal terms are divided by the other endpoint's area
LaplacianValues_DiagonalAreasSwapped(m, lvw) ==
    LET em == m.edge_mesh
        M == Len(em.edges)
        weights == [e \in 1..M |-> CFrac(em.dual_edge_lengths[e], em.edge_lengths[e])]
        areas0 == [e \in 1..M |-> m.areas[em.edges[e][1]]]
        areas1 == [e \in 1..M |-> m.areas[em.edges[e][2]]]
    IN  [e \in 1..M |-> CDivInt(CMul(weights[e], lvw[e]), areas0[e])]
        \o [e \in 1..M |-> CDivInt(CMul(weights[e], CConj(lvw[e])), areas1[e])]
        \o [e \in 1..M |-> CDivInt(CNeg(weights[e]), areas1[e])]
        \o [e \in 1..M |-> CDivInt(CNeg(weights[e]), areas0[e])]

LaplacianValues(m, lvw) ==
    LET em == m.edge_mesh
        M == Len(em.edges)
        weights == [e \in 1..M |-> CFrac(em.dual_edge_lengths[e], em.edge_lengths[e])]
        areas0 == [e \in 1..M |-> m.areas[em.edges[e][1]]]
        areas1 == [e \in 1..M |-> m.areas[em.edges[e][2]]]
    IN  [e \in 1..M |-> CDivInt(CMul(weights[e], lvw[e]), areas0[e])]
        \o [e \in 1..M |-> CDivInt(CMul(weights[e], CConj(lvw[e])), areas1[e])]
        \o [e \in 1..M |-> CDivInt(CNeg(weights[e]), areas0[e])]
        \o [e \in 1..M |-> CDivInt(CNeg(weights[e]), areas1[e])]

\* mutant: np.isin without invert=True
FreeRows_NotInverted(rows, fixed_sites, free_rows) ==
    IF free_rows = None
    THEN NdArray([k \in 1..Len(rows) |-> ~IsinInvert(rows, fixed_sites.data)[k]])
    ELSE free_rows

\* mutant: a mask supplied by the caller is not applied, every triplet is kept
FreeRows_SuppliedMaskNotApplied(rows, fixed_sites, free_rows) ==
    IF free_rows = None
    THEN NdArray(IsinInvert(rows, fixed_sites.data))
    ELSE NdArray([k \in 1..Len(rows) |-> TRUE])

\* if free_rows is None: free_rows = np.isin(rows, fixed_sites, invert=True)
FreeRows(rows, fixed_sites, free_rows) ==
    IF free_rows = None THEN NdArray(IsinInvert(rows, fixed_sites.data)) ELSE free_rows

\* the triplets handed to sp.csc_matrix: the free triplets, then one diagonal
\* triplet of value fixed_sites_eigenvalues for every fixed site
LaplacianTriplets(rows, cols, values, free_rows, fixed_sites, fixed_sites_eigenvalues) ==
    [rows |-> BoolIndex(rows, free_rows.data) \o fixed_sites.data,
     cols |-> BoolIndex(cols, free_rows.data) \o fixed_sites.data,
     values |-> BoolIndex(values, free_rows.data)
                  \o [k \in 1..Len(fixed_sites.data) |-> CFrac(fixed_sites_eigenvalues, 1)]]

build_laplacian(m, link_exponents, fixed_sites, free_rows, fixed_sites_eigenvalues) ==
    IF link_exponents = NoneArray
    THEN Raise("TypeError")    \* None * float in the element-wise product
    ELSE IF fixed_sites = NoneArray
    THEN Raise("ValueError: zero-dimensional arrays cannot be concatenated")
    ELSE LET fs == IF fixed_sites = None THEN NdArray(<<>>) ELSE fixed_sites
             em == m.edge_mesh
             rows == LaplacianRows(em)
             cols == LaplacianCols(em)
             values == LaplacianValues(m, link_variable_weights(em, link_exponents))
             fr == FreeRows(rows, fs, free_rows)
             t == LaplacianTriplets(rows, cols, values, fr, fs, fixed_sites_eigenvalues)
         IN  Return([laplacian |-> SparseMatrix(t.values, t.rows, t.cols, Len(m.x), Len(m.x)),
                     free_rows |-> fr,
                     triplets |-> t])

\* ----------------------------------------- build_neumann_boundary_laplacian
NeumannValues(m) ==
    LET em == m.edge_mesh
        B == Len(em.boundary_edge_indices)
        boundary_edges == [k \in 1..B |-> em.edges[em.boundary_edge_indices[k]]]
        boundary_edges_length == [k \in 1..B |-> em.edge_lengths[em.boundary_edge_indices[k]]]
    IN  [k \in 1..B |-> CFrac(boundary_edges_length[k], 2 * m.areas[boundary_edges[k][1]])]
        \o [k \in 1..B |-> CFrac(boundary_edges_length[k], 2 * m.areas[boundary_edges[k][2]])]

\* mutant: the rows of the fixed sites are left as assembled
ZeroFixedRows_Skipped(matrix, fixed_sites) == matrix

\* neumann_laplacian[fixed_sites, :] = 0, when fixed_sites is not None
ZeroFixedRows(matrix, fixed_sites) ==
    IF fixed_sites = None THEN matrix
    ELSE [i \in DOMAIN matrix |->
            IF \E t \in 1..Len(fixed_sites.data) : fixed_sites.data[t] = i
            THEN [j \in DOMAIN matrix[i] |-> CZero]
            ELSE matrix[i]]

build_neumann_boundary_laplacian(m, fixed_sites) ==
    IF fixed_sites = NoneArray
    THEN Raise("IndexError")   \* a 0-d object array is no row index
    ELSE LET em == m.edge_mesh
             B == Len(em.boundary_edge_indices)
             boundary_index == [k \in 1..B |-> k]
             boundary_edges == [k \in 1..B |-> em.edges[em.boundary_edge_indices[k]]]
             rows == [k \in 1..B |-> boundary_edges[k][1]]
                        \o [k \in 1..B |-> boundary_edges[k][2]]
             cols == boundary_index \o boundary_index
             neumann_laplacian == SparseMatrix(NeumannValues(m), rows, cols, Len(m.x), B)
         IN  Return(ZeroFixedRows(neumann_laplacian, fixed_sites))


\* ------------------------------------------- the assembly functions, called
\* args: the arguments of the calls; ret: what the last call returned
Idle == [fn |-> "none", op |-> "none"]

InitAsm ==
    /\ mesh \in Meshes
    /\ builders = <<>> /\ same = <<>> /\ out = Idle /\ cloned = <<>>
    /\ args \in [link_exponents : LinkArrays \cup {None},
                 fixed_sites : FixedArrays \cup {None},
                 fixed_sites_eigenvalues : EigenValues]
    /\ ret = Idle

\* build_laplacian(mesh, link_exponents, fixed_sites, None, eigenvalue)
CallLaplacian ==
    /\ ret = Idle
    /\ ret' = [fn |-> "build_laplacian", free_rows |-> None,
               out |-> build_laplacian(mesh, args.link_exponents, args.fixed_sites,
                                       None, args.fixed_sites_eigenvalues)]
    /\ UNCHANGED <<mesh, args, bldVars>>

\* the same call again, free_rows being the mask the first call returned
CallLaplacianFreeRows ==
    /\ ret.fn = "build_laplacian"
    /\ ret.free_rows = None
    /\ ret' = [fn |-> "build_laplacian", free_rows |-> ret.out.value.free_rows,
               first |-> ret.out,
               out |-> build_laplacian(mesh, args.link_exponents, args.fixed_sites,
                                       ret.out.value.free_rows,
                                       args.fixed_sites_eigenvalues)]
    /\ UNCHANGED <<mesh, args, bldVars>>

CallNeumann ==
    /\ ret = Idle
    /\ ret' = [fn |-> "build_neumann_boundary_laplacian",
               out |-> build_neumann_boundary_laplacian(mesh, args.fixed_sites)]
    /\ UNCHANGED <<mesh, args, bldVars>>

\* divergence @ (gradient @ phi) for the constant site field phi = c
CallDivGrad ==
    /\ ret = Idle
    /\ \E c \in {1, MaxEig} :
        LET gradient == build_gradient(mesh, args.link_exponents).value
            divergence == build_divergence(mesh).value
            phi == [i \in 1..Len(mesh.x) |-> CFrac(c, 1)]
            grad_phi == MatVec(gradient, phi)
        IN  ret' = [fn |-> "divergence@gradient", phi |-> phi,
                    gradient |-> gradient, divergence |-> divergence,
                    grad_phi |-> grad_phi,
                    out |-> MatVec(divergence, grad_phi)]
    /\ UNCHANGED <<mesh, args, bldVars>>

NextAsm ==
    \/ CallLaplacian
    \/ CallLaplacianFreeRows
    \/ CallNeumann
    \/ CallDivGrad

SpecAsm == InitAsm /\ [][NextAsm]_vars


\* =================================================== claims on the assembler
\* what the formulas below read off a state
LaplacianReturned == ret.fn = "build_laplacian" /\ ret.out.raised = "no"
MaskComputedInternally == LaplacianReturned /\ ret.free_rows = None
NeumannReturned == ret.fn = "build_neumann_boundary_laplacian" /\ ret.out.raised = "no"
DivGradReturned == ret.fn = "divergence@gradient"
FixedSiteSet ==
    IF args.fixed_sites = None THEN {}
    ELSE {args.fixed_sites.data[t] : t \in 1..Len(args.fixed_sites.data)}
IsReal(z) == z.im = 0
UnitLinkVariables ==
    \A e \in Edges : link_variable_weights(mesh.edge_mesh, args.link_exponents)[e] = COne
ZeroLinkExponents ==
    \/ args.link_exponents = None
    \/ \A e \in Edges : args.link_exponents.data[e] = <<0, 0>>

\* C1: with the mask computed internally and a non-empty fixed-site set of
\* eigenvalue E, every row of the Laplacian whose index is a fixed site holds E
\* on the diagonal and zero in every other column.
C1_FixedRowIsEigenvalueIdentity ==
    (MaskComputedInternally /\ FixedSiteSet # {}) =>
        \A f \in FixedSiteSet : \A j \in Sites :
            ret.out.value.laplacian[f][j] =
                IF j = f THEN CFrac(args.fixed_sites_eigenvalues, 1) ELSE CZero

C1_Witness ==
    /\ MaskComputedInternally
    /\ args.fixed_sites = NdArray(<<1, 2>>)
    /\ args.fixed_sites_eigenvalues = 2
    /\ args.link_exponents # None
    /\ ret.out.value.laplacian[1][1] = CFrac(2, 1)
    /\ ret.out.value.laplacian[3][3] # CZero

\* C2: for every fixed site f and every site i # f, both L[f][i] and L[i][f]
\* are zero in the returned Laplacian: the entries of the row and of the column
\* of a fixed site are dropped, only the diagonal eigenvalue remains.
C2_FixedRowAndColumnDropped ==
    (MaskComputedInternally /\ FixedSiteSet # {}) =>
        \A f \in FixedSiteSet : \A i \in Sites \ {f} :
            /\ ret.out.value.laplacian[f][i] = CZero
            /\ ret.out.value.laplacian[i][f] = CZero

\* C3: the Laplacian built again with the same arguments and free_rows set to
\* the mask the first call returned is the first result over again: the same
\* matrix entry for entry, the same rows/cols/values triplets, the same mask.
C3_FreeRowsRoundTrip ==
    (LaplacianReturned /\ ret.free_rows # None) =>
        /\ ret.out.value.laplacian = ret.first.value.laplacian
        /\ ret.out.value.triplets = ret.first.value.triplets
        /\ ret.out.value.free_rows = ret.first.value.free_rows
        /\ ret.out.value.free_rows = ret.free_rows

C3_Witness ==
    /\ LaplacianReturned
    /\ ret.free_rows # None
    /\ args.fixed_sites = NdArray(<<2>>)
    /\ \E k \in 1..Len(ret.free_rows.data) : ~ret.free_rows.data[k]
    /\ \E k \in 1..Len(ret.free_rows.data) : ret.free_rows.data[k]

\* C6 as claimed: without fixed sites (link exponents None or real) the
\* Laplacian is symmetric, L[i][j] = L[j][i] for all sites i, j, whatever the
\* dual areas of the sites.
C6_LaplacianSymmetric ==
    (LaplacianReturned /\ args.fixed_sites = None) =>
        \A i, j \in Sites : ret.out.value.laplacian[i][j] = ret.out.value.laplacian[j][i]

\* C6 amended: without fixed sites the Laplacian is symmetric up to the dual
\* areas and conjugation, areas[i] * L[i][j] = conj(areas[j] * L[j][i]) for all
\* sites i, j, and it is real when the link exponents are None.
C6_AreaWeightedHermitian ==
    (LaplacianReturned /\ args.fixed_sites = None) =>
        /\ \A i, j \in Sites :
              CMul(CFrac(mesh.areas[i], 1), ret.out.value.laplacian[i][j])
                = CConj(CMul(CFrac(mesh.areas[j], 1), ret.out.value.laplacian[j][i]))
        /\ args.link_exponents = None =>
              \A i, j \in Sites : IsReal(ret.out.value.laplacian[i][j])

C6_Witness ==
    /\ LaplacianReturned
    /\ args.fixed_sites = None
    /\ \E i, j \in Sites :
          /\ mesh.areas[i] # mesh.areas[j]
          /\ ~IsReal(ret.out.value.laplacian[i][j])
          /\ ret.out.value.laplacian[i][j] # ret.out.value.laplacian[j][i]

C8_DivGradOfConstantIsZero ==
    DivGradReturned => \A i \in Sites : ret.out[i] = CZero

\* C8 amended: divergence @ (gradient @ constant field) is the all-zero site
\* vector when the gradient was built with link exponents None or with link
\* exponents whose link variable is 1 on every edge.
C8_DivGradOfConstantIsZeroUnitLinks ==
    (DivGradReturned /\ UnitLinkVariables) => \A i \in Sites : ret.out[i] = CZero

C8_Witness ==
    /\ DivGradReturned
    /\ UnitLinkVariables
    /\ ret.phi[1] = CFrac(2, 1)
    /\ \E i \in Sites : mesh.areas[i] # mesh.areas[1]
    /\ \A e \in Edges : ret.grad_phi[e] = CZero
    /\ \A i \in Sites : ret.out[i] = CZero

\* C9: with zero (or no) link exponents and no fixed sites every row of the
\* Laplacian sums to zero.
C9_RowSumsZero ==
    (LaplacianReturned /\ args.fixed_sites = None /\ ZeroLinkExponents) =>
        \A i \in Sites :
            MatVec(ret.out.value.laplacian, [j \in Sites |-> COne])[i] = CZero

C9_Witness ==
    /\ LaplacianReturned
    /\ args.fixed_sites = None
    /\ args.link_exponents # None
    /\ ZeroLinkExponents
    /\ \E i \in Sites : mesh.areas[i] # mesh.areas[1]
    /\ \A i \in Sites : ret.out.value.laplacian[i][i] # CZero


\* ============================================================ MatrixBuilder
\* The four members of MatrixType that build() tests with `is`, and one value
\* that is none of them.
MatrixType == {"LAPLACIAN", "NEUMANN_BOUNDARY_LAPLACIAN", "DIVERGENCE", "GRADIENT"}
MatrixTypeArgs == MatrixType \cup {"OTHER"}

\* A builder is held by the values of its fields; a field is None, an array
\* or the 0-d array np.copy(None) makes.  np.asarray does not copy an array it
\* is given, so two builders handed the same array refer to one object:
\* same[field] says that b's and c's field are one array object, which a
\* change in place through either builder changes for both.
Absent == [kind |-> "absent"]
Names == {"b", "c"}
Fields == {"fixed_sites", "link_exponents"}
Other(who) == IF who = "b" THEN "c" ELSE "b"
IsArray(v) == v.kind = "ndarray"

\* ---- the arguments the builder is driven with
BuilderMesh == MeshOf([i \in Sites |-> 1 + (i % MaxArea)])
BuilderFixedArray == NdArray(SortedSeq(1..MaxFixed))
\* the same arguments given as Python lists
List(data) == [kind |-> "list", data |-> data]
AsList(a) == List(a.data)
BuilderLinkArrays == {NdArray([e \in Edges |-> <<p, 0>>]) : p \in {0, MaxLink}}
BuilderEigenValues == {1, MaxEig}

\* MatrixBuilder.__init__
NewBuilder ==
    [fixed_sites |-> None, fixed_sites_eigenvalue |-> 1, link_exponents |-> None]

InitBuilder ==
    /\ mesh = BuilderMesh
    /\ args = <<>> /\ ret = Idle
    /\ builders = [w \in Names |-> IF w = "b" THEN NewBuilder ELSE Absent]
    /\ same = [f \in Fields |-> FALSE]
    /\ out = Idle
    /\ cloned = [w \in Names |-> None]

\* history: a builder that is called, or whose array is changed through it,
\* no longer counts as left alone since the clone; a builder one of whose
\* arrays is handed to the other builder shares that array from then on
Touch(h, who) == [h EXCEPT ![who] = None]
Share(h, who) ==
    IF h[who] = None THEN h ELSE [h EXCEPT ![who] = [@ EXCEPT !.shared = TRUE]]

\* np.asarray(a): an array is returned as it is (the same object), a list
\* becomes a new array of its elements, None a 0-d object array
np_asarray(a) ==
    IF a.kind = "list" THEN NdArray(a.data)
    ELSE IF a = None THEN NoneArray
    ELSE a

\* mutant: the sites given are added to the sites the builder holds
with_dirichlet_boundary_Unions(self, fixed_sites, fixed_sites_eigenvalues) ==
    [self EXCEPT !.fixed_sites =
                     IF IsArray(self.fixed_sites)
                     THEN NdArray(SortedSeq(
                              {self.fixed_sites.data[k] : k \in DOMAIN self.fixed_sites.data}
                                  \cup {fixed_sites.data[k] : k \in DOMAIN fixed_sites.data}))
                     ELSE np_asarray(fixed_sites),
                 !.fixed_sites_eigenvalue = fixed_sites_eigenvalues]

\* self.fixed_sites = np.asarray(fixed_sites);
\* self.fixed_sites_eigenvalue = fixed_sites_eigenvalues
with_dirichlet_boundary(self, fixed_sites, fixed_sites_eigenvalues) ==
    [self EXCEPT !.fixed_sites = np_asarray(fixed_sites),
                 !.fixed_sites_eigenvalue = fixed_sites_eigenvalues]

\* self.link_exponents = np.asarray(link_exponents)
with_link_exponents(self, link_exponents) ==
    [self EXCEPT !.link_exponents = np_asarray(link_exponents)]

\* who.with_dirichlet_boundary(a, eig): a is a list of sites, or the array
\* the other builder holds
WithDirichletBoundary(who) ==
    /\ builders[who] # Absent
    /\ \E eig \in BuilderEigenValues :
        \/ \E a \in {AsList(BuilderFixedArray)} :
           /\ builders' = [builders EXCEPT
                              ![who] = with_dirichlet_boundary(@, a, eig)]
           /\ same' = [same EXCEPT !.fixed_sites = FALSE]
           /\ cloned' = Touch(cloned, who)
           /\ out' = [op |-> "with_dirichlet_boundary", who |-> who, returned |-> who,
                      fixed_sites |-> a, fixed_sites_eigenvalues |-> eig]
        \/ /\ builders[Other(who)] # Absent
           /\ IsArray(builders[Other(who)].fixed_sites)
           /\ builders' = [builders EXCEPT
                              ![who] = with_dirichlet_boundary(
                                           @, builders[Other(who)].fixed_sites, eig)]
           /\ same' = [same EXCEPT !.fixed_sites = TRUE]
           /\ cloned' = Share(Touch(cloned, who), Other(who))
           /\ out' = [op |-> "with_dirichlet_boundary", who |-> who, returned |-> who,
                      fixed_sites |-> builders[Other(who)].fixed_sites,
                      fixed_sites_eigenvalues |-> eig]
    /\ UNCHANGED <<mesh, asmVars>>

\* who.with_link_exponents(a): a is a list of vectors, or the array the
\* other builder holds
WithLinkExponents(who) ==
    /\ builders[who] # Absent
    /\ \/ \E a \in {AsList(x) : x \in BuilderLinkArrays} :
           /\ builders' = [builders EXCEPT ![who] = with_link_exponents(@, a)]
           /\ same' = [same EXCEPT !.link_exponents = FALSE]
           /\ cloned' = Touch(cloned, who)
           /\ out' = [op |-> "with_link_exponents", who |-> who, returned |-> who,
                      link_exponents |-> a]
       \/ /\ builders[Other(who)] # Absent
          /\ IsArray(builders[Other(who)].link_exponents)
          /\ builders' = [builders EXCEPT
                             ![who] = with_link_exponents(
                                          @, builders[Other(who)].link_exponents)]
          /\ same' = [same EXCEPT !.link_exponents = TRUE]
          /\ cloned' = Share(Touch(cloned, who), Other(who))
          /\ out' = [op |-> "with_link_exponents", who |-> who, returned |-> who,
                     link_exponents |-> builders[Other(who)].link_exponents]
    /\ UNCHANGED <<mesh, asmVars>>

\* a change in place of the array that field `field` of `who` refers to: every
\* builder whose field is that array object sees it
SetInPlace(bs, sm, who, field, value) ==
    [w \in Names |->
        IF w = who \/ (sm[field] /\ bs[w] # Absent)
        THEN [bs[w] EXCEPT ![field] = value] ELSE bs[w]]

\* who.fixed_sites[0] = s
SetFixedSite(who) ==
    /\ builders[who] # Absent
    /\ IsArray(builders[who].fixed_sites)
    /\ \E s \in {1, NumSites} :
          /\ builders[who].fixed_sites.data[1] # s
          /\ builders' = SetInPlace(builders, same, who, "fixed_sites",
                            NdArray([builders[who].fixed_sites.data EXCEPT ![1] = s]))
    /\ out' = [op |-> "setitem", who |-> who]
    /\ cloned' = Touch(cloned, who)
    /\ UNCHANGED <<mesh, asmVars, same>>

\* who.link_exponents[:] = (p, 0)
SetLinkExponents(who) ==
    /\ builders[who] # Absent
    /\ IsArray(builders[who].link_exponents)
    /\ \E a \in BuilderLinkArrays :
          /\ builders[who].link_exponents # a
          /\ builders' = SetInPlace(builders, same, who, "link_exponents", a)
    /\ out' = [op |-> "setitem", who |-> who]
    /\ cloned' = Touch(cloned, who)
    /\ UNCHANGED <<mesh, asmVars, same>>

\* mutant: the last test is taken for granted, nothing is raised
MatrixBuilder_build_NeverRaises(m, self, matrix_type, free_rows) ==
    IF matrix_type = "LAPLACIAN"
    THEN build_laplacian(m, self.link_exponents, self.fixed_sites, free_rows,
                         self.fixed_sites_eigenvalue)
    ELSE IF matrix_type = "NEUMANN_BOUNDARY_LAPLACIAN"
    THEN build_neumann_boundary_laplacian(m, self.fixed_sites)
    ELSE IF matrix_type = "DIVERGENCE"
    THEN build_divergence(m)
    ELSE build_gradient(m, self.link_exponents)

\* MatrixBuilder.build: what it returns or raises
MatrixBuilder_build(m, self, matrix_type, free_rows) ==
    IF matrix_type = "LAPLACIAN"
    THEN build_laplacian(m, self.link_exponents, self.fixed_sites, free_rows,
                         self.fixed_sites_eigenvalue)
    ELSE IF matrix_type = "NEUMANN_BOUNDARY_LAPLACIAN"
    THEN build_neumann_boundary_laplacian(m, self.fixed_sites)
    ELSE IF matrix_type = "DIVERGENCE"
    THEN build_divergence(m)
    ELSE IF matrix_type = "GRADIENT"
    THEN build_gradient(m, self.link_exponents)
    ELSE Raise("ValueError: Unknown matrix type")

\* who.build(matrix_type, free_rows); free_rows is None or, for a Laplacian,
\* the mask the builder's last build returned
Build(who) ==
    /\ builders[who] # Absent
    /\ \E matrix_type \in MatrixTypeArgs :
       \E free_rows \in {None} \cup
             (IF /\ matrix_type = "LAPLACIAN"
                 /\ out.op = "build" /\ out.who = who
                 /\ out.matrix_type = "LAPLACIAN" /\ out.ret.raised = "no"
              THEN {out.ret.value.free_rows} ELSE {}) :
          out' = [op |-> "build", who |-> who, matrix_type |-> matrix_type,
                  free_rows |-> free_rows,
                  ret |-> MatrixBuilder_build(mesh, builders[who], matrix_type, free_rows)]
    /\ UNCHANGED <<mesh, asmVars, builders, same, cloned>>

\* mutant: the clone refers to the array of the original
np_copy_NotCopied(a) == [value |-> a, same_object |-> a # None]

\* np.copy(a): a new array with the elements of a; of None, a 0-d object array
np_copy(a) ==
    [value |-> IF a = None THEN NoneArray ELSE a, same_object |-> FALSE]

\* MatrixBuilder.clone
clone(self) ==
    [NewBuilder EXCEPT
        !.fixed_sites = np_copy(self.fixed_sites).value,
        !.fixed_sites_eigenvalue = self.fixed_sites_eigenvalue,
        !.link_exponents = np_copy(self.link_exponents).value]

\* c = b.clone()
Clone ==
    /\ builders' = [builders EXCEPT !["c"] = clone(builders["b"])]
    /\ same' = [f \in Fields |-> np_copy(builders["b"][f]).same_object]
    /\ out' = [op |-> "clone", who |-> "b", returned |-> "c"]
    /\ cloned' = [w \in Names |-> [at |-> builders'[w], shared |-> FALSE]]
    /\ UNCHANGED <<mesh, asmVars>>

Next ==
    \/ \E who \in Names : WithDirichletBoundary(who)
    \/ \E who \in Names : WithLinkExponents(who)
    \/ \E who \in Names : SetFixedSite(who)
    \/ \E who \in Names : SetLinkExponents(who)
    \/ \E who \in Names : Build(who)
    \/ Clone

Spec == InitBuilder /\ [][Next]_vars

\* ==================================================== claims on the builder
UnknownMatrixType == Raise("ValueError: Unknown matrix type")

\* C4 as claimed: after c = b.clone(), whatever with_* calls are made on one
\* builder and whatever changes in place are made to its arrays, the other
\* builder keeps the fixed sites, eigenvalue and link exponents it had at the
\* clone, and what it builds is what it would have built right after the clone.
C4_CloneIsolated ==
    \A w \in Names :
        cloned[w] # None =>
            /\ builders[w] = cloned[w].at
            /\ (out.op = "build" /\ out.who = w) =>
                  out.ret = MatrixBuilder_build(mesh, cloned[w].at,
                                                out.matrix_type, out.free_rows)

\* C4 amended: the same, as long as no array that the builder holds has been
\* handed to the other builder since the clone.
C4_CloneIsolatedUnlessArrayHandedOver ==
    \A w \in Names :
        (cloned[w] # None /\ ~cloned[w].shared) =>
            /\ builders[w] = cloned[w].at
            /\ (out.op = "build" /\ out.who = w) =>
                  out.ret = MatrixBuilder_build(mesh, cloned[w].at,
                                                out.matrix_type, out.free_rows)

C4_Witness ==
    /\ out.op = "build" /\ out.who = "c" /\ out.matrix_type = "LAPLACIAN"
    /\ out.ret.raised = "no"
    /\ cloned["c"] # None /\ ~cloned["c"].shared
    /\ cloned["b"] = None
    /\ IsArray(builders["b"].fixed_sites)
    /\ builders["b"].fixed_sites.data[1] = NumSites
    /\ builders["c"].fixed_sites = BuilderFixedArray
    /\ builders["b"].fixed_sites_eigenvalue # builders["c"].fixed_sites_eigenvalue
    /\ builders["b"].link_exponents # builders["c"].link_exponents
    /\ IsArray(builders["c"].link_exponents)

\* C5: build raises the unknown-matrix-type value error for every matrix_type
\* that is none of the four members, leaving the builder's configuration as it
\* was; for each of the four members it does not raise that error and returns
\* what the matching assembly function returns for the builder's fields.
C5_BuildDispatch ==
    [][out'.op = "build" =>
        LET self == builders[out'.who]
            mt == out'.matrix_type
        IN  /\ mt \notin MatrixType =>
                  /\ out'.ret = UnknownMatrixType
                  /\ UNCHANGED <<builders, same, mesh>>
            /\ mt \in MatrixType => out'.ret # UnknownMatrixType
            /\ mt = "LAPLACIAN" =>
                  out'.ret = build_laplacian(mesh, self.link_exponents, self.fixed_sites,
                                             out'.free_rows, self.fixed_sites_eigenvalue)
            /\ mt = "NEUMANN_BOUNDARY_LAPLACIAN" =>
                  out'.ret = build_neumann_boundary_laplacian(mesh, self.fixed_sites)
            /\ mt = "DIVERGENCE" => out'.ret = build_divergence(mesh)
            /\ mt = "GRADIENT" => out'.ret = build_gradient(mesh, self.link_exponents)
    ]_vars

C5_Witness ==
    /\ out.op = "build" /\ out.matrix_type = "OTHER"
    /\ out.ret = UnknownMatrixType
    /\ IsArray(builders[out.who].fixed_sites)
    /\ IsArray(builders[out.who].link_exponents)

\* C10: right after c = b.clone(), c holds a configuration equal to b's (None
\* stays None) and, for each of the four operator kinds, build on c gives what
\* build on b gives.
C10_CloneBuildsTheSame ==
    out.op = "clone" =>
        /\ builders["c"] = builders["b"]
        /\ \A mt \in MatrixType :
              MatrixBuilder_build(mesh, builders["c"], mt, None)
                = MatrixBuilder_build(mesh, builders["b"], mt, None)

\* C11: a builder starts with fixed sites None, eigenvalue 1 and link exponents
\* None.  A with_dirichlet_boundary call makes the builder's fixed sites and
\* eigenvalue exactly the arguments of that call (replacing what was held),
\* leaves its link exponents as they were and returns the builder itself; a
\* with_link_exponents call makes its link exponents exactly the argument,
\* leaves its fixed sites and eigenvalue as they were and returns the builder
\* itself; a with_* call changes no field of another builder; build and clone
\* change no field of the builder they are called on; no call changes the mesh.
\* So the fields are always those of the most recent with_* calls.
C11_SameElements(field, arg) == IsArray(field) /\ field.data = arg.data

C11_FieldsAreLastArguments ==
    /\ builders["b"] = [fixed_sites |-> None, fixed_sites_eigenvalue |-> 1,
                        link_exponents |-> None]
    /\ [][/\ out'.op = "with_dirichlet_boundary" =>
              /\ C11_SameElements(builders'[out'.who].fixed_sites, out'.fixed_sites)
              /\ builders'[out'.who].fixed_sites_eigenvalue
                    = out'.fixed_sites_eigenvalues
              /\ builders'[out'.who].link_exponents = builders[out'.who].link_exponents
              /\ builders'[Other(out'.who)] = builders[Other(out'.who)]
              /\ out'.returned = out'.who
              /\ mesh' = mesh
          /\ out'.op = "with_link_exponents" =>
              /\ C11_SameElements(builders'[out'.who].link_exponents, out'.link_exponents)
              /\ builders'[out'.who].fixed_sites = builders[out'.who].fixed_sites
              /\ builders'[out'.who].fixed_sites_eigenvalue
                    = builders[out'.who].fixed_sites_eigenvalue
              /\ builders'[Other(out'.who)] = builders[Other(out'.who)]
              /\ out'.returned = out'.who
              /\ mesh' = mesh
          /\ out'.op = "build" => (builders' = builders /\ mesh' = mesh)
          /\ out'.op = "clone" =>
              (builders'[out'.who] = builders[out'.who] /\ mesh' = mesh)
        ]_vars

\* a with_dirichlet_boundary call given a list, on a builder that holds link
\* exponents and whose eigenvalue becomes other than the default
C11_Witness ==
    /\ out.op = "with_dirichlet_boundary"
    /\ out.fixed_sites.kind = "list"
    /\ out.fixed_sites_eigenvalues # 1
    /\ builders[out.who].fixed_sites = BuilderFixedArray
    /\ builders[out.who].fixed_sites_eigenvalue = out.fixed_sites_eigenvalues
    /\ IsArray(builders[out.who].link_exponents)
    /\ cloned[out.who] = None
    /\ builders[Other(out.who)] # Absent
    /\ IsArray(builders[Other(out.who)].fixed_sites)
    /\ builders[Other(out.who)].fixed_sites # BuilderFixedArray

====
